---- MODULE Spec2Model ----
(***************************************************************************)
(* A model of the BOM / accessory-list toolkit: the self-purchase          *)
(* pipelines extract_and_format_bom and extract_and_format_accessory, the  *)
(* non-self-purchase pipeline of process_non_self_purchase_components.py,  *)
(* and the pure functions they are built from.                             *)
(*                                                                         *)
(* A Python string is a sequence of one-character strings.  A CJK          *)
(* character is written as one token, its pinyin with the tone number      *)
(* ("tao2" is U+6DD8), the full-width space U+3000 as "u3000": a token is  *)
(* one character of the string, never equal to an ASCII character.         *)
(***************************************************************************)
EXTENDS Integers, Sequences, FiniteSets, TLC

VARIABLES
    pc,            \* position of the running script
    designator,    \* SpecClassify: the argument of classify_component
    category,      \* SpecClassify: its result
    record_type,   \* SpecClassify: the type cell of the emitted record
    table,         \* SpecFilter: the table both row filters are applied to
    self_kept,     \* SpecFilter: row numbers kept by extract_and_format_bom
    non_self_kept, \* SpecFilter: row numbers kept by judge_non_self_purchase
    pipeline,      \* Spec: which script runs
    files,         \* Spec: the discovered files, in discovery order
    idx,           \* Spec: number of files the loop has finished with
    all_components,\* Spec: one table per contributing file (all_self_purchase,
                   \*       all_accessory_data, all_components)
    combined,      \* Spec: df_with_module_all / df_total / combined_df
    module_total,  \* Spec: the groupby result, one row per module
    df_unique,     \* Spec: df_type_unique / df_unique / deduplicated_df
    total,         \* Spec: the grand total printed by the statistics
    regular_df,    \* Spec: the regular records split_regular_special returns
    special_df,    \* Spec: the special records it returns
    headers,       \* SpecMatch: the column labels given to match_column_name
    targets,       \* SpecMatch: the variant names given to it
    matched,       \* SpecMatch: its result
    listing,       \* SpecZip: the entries os.listdir returned, in its order
    reached,       \* SpecZip: number of entries the loop has finished with
    zips           \* SpecZip: the state of <entry>.zip for each entry

classifyVars == <<designator, category, record_type>>
filterVars == <<table, self_kept, non_self_kept>>
runVars == <<pipeline, files, idx, all_components, combined, module_total, df_unique, total,
             regular_df, special_df>>
unitVars == <<headers, targets, matched, listing, reached, zips>>
vars == <<pc, classifyVars, filterVars, runVars, unitVars>>

\* The value of a variable the running specification does not use.
Idle == <<>>

ClassifyIdle == designator = Idle /\ category = Idle /\ record_type = Idle
FilterIdle == table = Idle /\ self_kept = Idle /\ non_self_kept = Idle
RunIdle ==
    /\ pipeline = Idle
    /\ files = Idle
    /\ idx = Idle
    /\ all_components = Idle
    /\ combined = Idle
    /\ module_total = Idle
    /\ df_unique = Idle
    /\ total = Idle
    /\ regular_df = Idle
    /\ special_df = Idle
MatchIdle == headers = Idle /\ targets = Idle /\ matched = Idle
ZipIdle == listing = Idle /\ reached = Idle /\ zips = Idle
UnitIdle == MatchIdle /\ ZipIdle

(***************************************************************************)
(* Bounds.                                                                 *)
(***************************************************************************)
MaxDesLen == 3
MaxCellLen == 1
MaxFiles == 2
MaxRows == 2
MaxHeaders == 2
MaxTargets == 2
MaxItems == 2
MaxRecords == 2

(***************************************************************************)
(* Python strings and pandas cells.                                        *)
(***************************************************************************)
\* A missing cell: pandas NaN and Python None, which pd.isna does not tell apart.
NaN == <<"NaN">>

isna(val) == val = NaN

\* The characters str.strip() removes that the model's strings can hold.
Whitespace == {" ", "\t", "\n", "\r", "u3000"}

RECURSIVE LStrip(_)
LStrip(s) == IF s # <<>> /\ Head(s) \in Whitespace THEN LStrip(Tail(s)) ELSE s

RECURSIVE RStrip(_)
RStrip(s) ==
    IF s # <<>> /\ s[Len(s)] \in Whitespace THEN RStrip(SubSeq(s, 1, Len(s) - 1)) ELSE s

\* str.strip()
Strip(s) == RStrip(LStrip(s))

\* str.replace(ch, '') for a one-character ch
Replace(s, ch) == SelectSeq(s, LAMBDA c : c # ch)

LowerCase == <<"a", "b", "c", "d", "e", "f", "g", "h", "i", "j", "k", "l", "m",
               "n", "o", "p", "q", "r", "s", "t", "u", "v", "w", "x", "y", "z">>
UpperCase == <<"A", "B", "C", "D", "E", "F", "G", "H", "I", "J", "K", "L", "M",
               "N", "O", "P", "Q", "R", "S", "T", "U", "V", "W", "X", "Y", "Z">>

UpperMap == [c \in {LowerCase[i] : i \in 1..26} |->
                UpperCase[CHOOSE i \in 1..26 : LowerCase[i] = c]]
LowerMap == [c \in {UpperCase[i] : i \in 1..26} |->
                LowerCase[CHOOSE i \in 1..26 : UpperCase[i] = c]]

UpperChar(c) == IF c \in DOMAIN UpperMap THEN UpperMap[c] ELSE c

LowerChar(c) == IF c \in DOMAIN LowerMap THEN LowerMap[c] ELSE c

\* str.upper() and str.lower()
Upper(s) == [i \in 1..Len(s) |-> UpperChar(s[i])]
Lower(s) == [i \in 1..Len(s) |-> LowerChar(s[i])]

\* str.startswith(p)
StartsWith(s, p) == Len(s) >= Len(p) /\ SubSeq(s, 1, Len(p)) = p

\* str.endswith(p)
EndsWith(s, p) == Len(s) >= Len(p) /\ SubSeq(s, Len(s) - Len(p) + 1, Len(s)) = p

\* p in s
Contains(s, p) == \E i \in 1..(Len(s) - Len(p) + 1) : SubSeq(s, i, i + Len(p) - 1) = p

\* All strings over an alphabet, up to a length.
StringsUpTo(alphabet, n) == UNION {[1..k -> alphabet] : k \in 0..n}

EXT_XLSX == <<".", "x", "l", "s", "x">>
EXT_XLS == <<".", "x", "l", "s">>

clean_invalid_content(val) ==
    IF isna(val)
    THEN NaN
    ELSE LET str_val == Replace(Replace(Replace(Replace(Strip(val), "u3000"), "\t"), "\n"), "\r")
         IN  IF str_val # <<>> THEN str_val ELSE NaN

(***************************************************************************)
(* Tables.  A DataFrame is its column labels, its row labels (index) and   *)
(* its rows, each row holding one cell per column.                         *)
(***************************************************************************)
DataFrame(columns, index, data) == [columns |-> columns, index |-> index, data |-> data]

Rows(df) == 1..Len(df.data)

HasColumn(df, col) == \E i \in 1..Len(df.columns) : df.columns[i] = col

ColumnIndex(df, col) == CHOOSE i \in 1..Len(df.columns) :
                            /\ df.columns[i] = col
                            /\ \A k \in 1..(i - 1) : df.columns[k] # col

\* df[col] at row r
CellAt(df, r, col) == df.data[r][ColumnIndex(df, col)]

\* df[col] = values: the column is replaced where it stands, or added last.
SetColumn(df, col, values) ==
    IF HasColumn(df, col)
    THEN [df EXCEPT !.data = [r \in Rows(df) |->
                                 [df.data[r] EXCEPT ![ColumnIndex(df, col)] = values[r]]]]
    ELSE [df EXCEPT !.columns = Append(df.columns, col),
                    !.data = [r \in Rows(df) |-> Append(df.data[r], values[r])]]

\* df[mask]: the rows whose mask is true, in order, under their own labels.
RECURSIVE KeptRows(_, _, _)
KeptRows(df, mask, r) ==
    IF r > Len(df.data)
    THEN <<>>
    ELSE IF mask[r] THEN <<r>> \o KeptRows(df, mask, r + 1) ELSE KeptRows(df, mask, r + 1)

SelectRows(df, mask) ==
    LET kept == KeptRows(df, mask, 1)
    IN  [df EXCEPT !.index = [k \in 1..Len(kept) |-> df.index[kept[k]]],
                   !.data = [k \in 1..Len(kept) |-> df.data[kept[k]]]]

\* df[cols]: the named columns, in the order named.
Project(df, cols) ==
    [df EXCEPT !.columns = cols,
               !.data = [r \in Rows(df) |-> [c \in 1..Len(cols) |-> CellAt(df, r, cols[c])]]]

\* str.replace(p, ''): every occurrence of p, left to right, removed.
RECURSIVE RemoveAll(_, _)
RemoveAll(s, p) ==
    IF Len(s) < Len(p)
    THEN s
    ELSE IF SubSeq(s, 1, Len(p)) = p
         THEN RemoveAll(SubSeq(s, Len(p) + 1, Len(s)), p)
         ELSE <<Head(s)>> \o RemoveAll(Tail(s), p)

\* os.path.basename
RECURSIVE basename(_)
basename(path) ==
    IF \E i \in 1..Len(path) : path[i] = "/"
    THEN basename(Tail(path))
    ELSE path

\* os.path.join(dirpath, filename)
PathOf(dirpath, filename) == dirpath \o <<"/">> \o filename

(***************************************************************************)
(* Column names.                                                           *)
(***************************************************************************)
COL == [manufacturer_part |-> <<"M", "a", "n", "u", "f", "a", "c", "t", "u", "r", "e", "r", " ", "P", "a", "r", "t">>,
        quantity |-> <<"Q", "u", "a", "n", "t", "i", "t", "y">>,
        designator |-> <<"D", "e", "s", "i", "g", "n", "a", "t", "o", "r">>,
        supplier_part |-> <<"S", "u", "p", "p", "l", "i", "e", "r", " ", "P", "a", "r", "t">>,
        lcsc_price |-> <<"L", "C", "S", "C", " ", "P", "r", "i", "c", "e">>,
        value |-> <<"V", "a", "l", "u", "e">>,
        taobao |-> <<"tao2", "bao3", "lian4", "jie1">>,
        order |-> <<"xia4", "dan1", "pei4", "zhi4">>,
        moq |-> <<"zui4", "xiao3", "qi3", "ding4", "liang4">>,
        no |-> <<"N", "o", ".">>,
        price |-> <<"P", "r", "i", "c", "e">>,
        manufacturer |-> <<"M", "a", "n", "u", "f", "a", "c", "t", "u", "r", "e", "r">>,
        module |-> <<"mo2", "kuai4", "ming2", "cheng1">>,
        type |-> <<"yuan2", "qi4", "jian4", "lei4", "xing2">>,
        file_path |-> <<"f", "i", "l", "e", "_", "p", "a", "t", "h">>,
        clean_taobao |-> <<"c", "l", "e", "a", "n", "_", "t", "a", "o", "b", "a", "o">>,
        clean_order |-> <<"c", "l", "e", "a", "n", "_", "o", "r", "d", "e", "r">>,
        clean_min_order |-> <<"c", "l", "e", "a", "n", "_", "m", "i", "n", "_", "o", "r", "d", "e", "r">>,
        total_bom |-> <<"zi4", "cai3", "yuan2", "qi4", "jian4", "zong3", "jia4">>,
        name |-> <<"yuan2", "qi4", "jian4", "ming2", "zi4">>,
        number |-> <<"yuan2", "qi4", "jian4", "bian1", "hao4">>,
        total_acc |-> <<"mo2", "kuai4", "pei4", "jian4", "zong3", "jin1", "e2">>]

\* Headers a table can carry beside the exact ones.
HDR == [order_note |-> <<"xia4", "dan1", "pei4", "zhi4", "shuo1", "ming2b">>,
        taobao_url |-> <<"T", "a", "o", "b", "a", "o", " ", "U", "R", "L">>,
        moq |-> <<"M", "O", "Q">>,
        spec |-> <<"S", "p", "e", "c">>,
        taobao_padded |-> <<" ">> \o COL.taobao \o <<" ">>]

(***************************************************************************)
(* match_column_name and judge_non_self_purchase.                          *)
(***************************************************************************)

column_mapping == [
    taobao_link |->
        << <<"tao2", "bao3", "lian4", "jie1">>,
           <<"tao2", "bao3", "wang3", "zhi3">>,
           <<"t", "a", "o", "b", "a", "o">>,
           <<"t", "a", "o", "b", "a", "o", " ", "u", "r", "l">> >>,
    order_config |->
        << <<"xia4", "dan1", "pei4", "zhi4">>,
           <<"gui1", "ge2">>,
           <<"pei4", "zhi4">>,
           <<"s", "p", "e", "c">>,
           <<"s", "p", "e", "c", "i", "f", "i", "c", "a", "t", "i", "o", "n">> >>,
    min_order |->
        << <<"zui4", "xiao3", "qi3", "ding4", "liang4">>,
           <<"ding4", "gou4", "liang4">>,
           <<"zui4", "xiao3", "ding4", "gou4", "liang4">>,
           <<"m", "o", "q">>,
           <<"m", "i", "n", " ", "o", "r", "d", "e", "r">> >> ]

\* A plausible slip: the loops nested the other way round, the first column
\* that contains any of the targets.
match_column_name_by_column(df_columns, target_names) ==
    LET hits == {i \in 1..Len(df_columns) :
                    \E t \in 1..Len(target_names) :
                        Contains(Lower(df_columns[i]), Lower(target_names[t]))}
    IN  IF hits = {} THEN NaN ELSE df_columns[CHOOSE i \in hits : \A k \in hits : i <= k]

\* The first column, in column order, whose lower-cased label contains the
\* lower-cased target; 0 when there is none.
FirstColumnWith(df_cols_lower, target_lower) ==
    LET hits == {i \in 1..Len(df_cols_lower) : Contains(df_cols_lower[i], target_lower)}
    IN  IF hits = {} THEN 0 ELSE CHOOSE i \in hits : \A k \in hits : i <= k

RECURSIVE MatchFrom(_, _, _, _)
MatchFrom(df_columns, df_cols_lower, target_names, t) ==
    IF t > Len(target_names)
    THEN NaN
    ELSE LET idx_found == FirstColumnWith(df_cols_lower, Lower(target_names[t]))
         IN  IF idx_found # 0
             THEN df_columns[idx_found]
             ELSE MatchFrom(df_columns, df_cols_lower, target_names, t + 1)

match_column_name(df_columns, target_names) ==
    MatchFrom(df_columns, [i \in 1..Len(df_columns) |-> Lower(df_columns[i])], target_names, 1)

\* "if col:" for a matched label: neither None nor the empty string.
Truthy(col) == ~isna(col) /\ col # <<>>

\* A plausible slip: | for & in the mask.
non_self_mask_any(clean_taobao, clean_order, clean_min_order) ==
    isna(clean_taobao) \/ isna(clean_order) \/ isna(clean_min_order)

\* The mask of the rows judged non-self-purchase.
non_self_mask(clean_taobao, clean_order, clean_min_order) ==
    isna(clean_taobao) /\ isna(clean_order) /\ isna(clean_min_order)

\* The clean_* column for a matched (or unmatched) indicator column.
CleanColumn(df, col) ==
    [r \in Rows(df) |-> IF Truthy(col) THEN clean_invalid_content(CellAt(df, r, col)) ELSE NaN]

\* The module name the non-self-purchase script derives from a path.
ModuleOfPath(x) == RemoveAll(RemoveAll(basename(x), EXT_XLSX), EXT_XLS)

judge_non_self_purchase(df) ==
    LET taobao_col == match_column_name(df.columns, column_mapping.taobao_link)
        order_col == match_column_name(df.columns, column_mapping.order_config)
        min_order_col == match_column_name(df.columns, column_mapping.min_order)
        df1 == SetColumn(df, COL.clean_taobao, CleanColumn(df, taobao_col))
        df2 == SetColumn(df1, COL.clean_order, CleanColumn(df1, order_col))
        df_copy == SetColumn(df2, COL.clean_min_order, CleanColumn(df2, min_order_col))
        non_self_purchase ==
            SelectRows(df_copy,
                       [r \in Rows(df_copy) |->
                           non_self_mask(CellAt(df_copy, r, COL.clean_taobao),
                                         CellAt(df_copy, r, COL.clean_order),
                                         CellAt(df_copy, r, COL.clean_min_order))])
    IN  IF HasColumn(df_copy, COL.file_path)
        THEN SetColumn(non_self_purchase, COL.module,
                       [r \in Rows(non_self_purchase) |->
                           ModuleOfPath(CellAt(non_self_purchase, r, COL.file_path))])
        ELSE non_self_purchase

\* df['file_path'] = file_path
WithFilePath(df, file_path) == SetColumn(df, COL.file_path, [r \in Rows(df) |-> file_path])

(***************************************************************************)
(* The row filter of the self-purchase scripts.                            *)
(***************************************************************************)
bom_core_columns == <<COL.manufacturer_part, COL.quantity, COL.designator, COL.supplier_part,
                      COL.lcsc_price, COL.value, COL.taobao, COL.order, COL.moq>>
filter_columns == <<COL.taobao, COL.order, COL.moq>>

\* df.columns = df.columns.str.strip()
StripColumns(df) == [df EXCEPT !.columns = [i \in 1..Len(df.columns) |-> Strip(df.columns[i])]]

\* missing_cols
MissingColumns(df, core_columns) ==
    {i \in 1..Len(core_columns) : ~HasColumn(df, core_columns[i])}

\* col_mask of one cell: notna and not empty once stripped
col_mask(cell) == ~isna(cell) /\ Strip(cell) # <<>>

\* df_filtered = df[mask]
SelfPurchaseRows(df) ==
    SelectRows(df, [r \in Rows(df) |->
                       \E c \in 1..Len(filter_columns) : col_mask(CellAt(df, r, filter_columns[c]))])

(***************************************************************************)
(* classify_component.                                                     *)
(***************************************************************************)
CAT == [unknown |-> <<"wei4b", "zhi1", "fw(", "wu2", "wei4", "hao4", "fw)">>,
        resistor |-> <<"dian4", "zu3">>,
        capacitor |-> <<"dian4", "rong2">>,
        diode |-> <<"er4", "ji2", "guan3">>,
        transistor |-> <<"jing1", "ti3", "guan3">>,
        ic |-> <<"ji2b", "cheng2", "dian4", "lu4">>,
        switch |-> <<"kai1", "guan1">>,
        connector |-> <<"lian2", "jie1", "qi4">>,
        other |-> <<"qi2", "ta1">>]

Categories == {CAT.unknown, CAT.resistor, CAT.capacitor, CAT.diode, CAT.transistor,
               CAT.ic, CAT.switch, CAT.connector, CAT.other}

ConnectorMarks == {<<"J">>, <<"C", "N">>, <<"U", "S", "B">>}

\* A plausible slip: the connector test made before the prefix tests.
classify_component_connector_first(d) ==
    IF isna(d)
    THEN CAT.unknown
    ELSE LET designator_str == Upper(Strip(d))
         IN  IF \E prefix \in ConnectorMarks : Contains(designator_str, prefix)
             THEN CAT.connector
             ELSE IF StartsWith(designator_str, <<"R">>) THEN CAT.resistor
             ELSE IF StartsWith(designator_str, <<"C">>) THEN CAT.capacitor
             ELSE IF StartsWith(designator_str, <<"L", "E", "D">>) THEN CAT.diode
             ELSE IF StartsWith(designator_str, <<"Q">>) THEN CAT.transistor
             ELSE IF StartsWith(designator_str, <<"U">>) THEN CAT.ic
             ELSE IF StartsWith(designator_str, <<"S", "W">>) THEN CAT.switch
             ELSE CAT.other

\* A plausible slip: CN and USB tested as prefixes ahead of C and U.
classify_component_cn_usb_first(d) ==
    IF isna(d)
    THEN CAT.unknown
    ELSE LET designator_str == Upper(Strip(d))
         IN  IF StartsWith(designator_str, <<"C", "N">>) THEN CAT.connector
             ELSE IF StartsWith(designator_str, <<"U", "S", "B">>) THEN CAT.connector
             ELSE IF StartsWith(designator_str, <<"R">>) THEN CAT.resistor
             ELSE IF StartsWith(designator_str, <<"C">>) THEN CAT.capacitor
             ELSE IF StartsWith(designator_str, <<"L", "E", "D">>) THEN CAT.diode
             ELSE IF StartsWith(designator_str, <<"Q">>) THEN CAT.transistor
             ELSE IF StartsWith(designator_str, <<"U">>) THEN CAT.ic
             ELSE IF StartsWith(designator_str, <<"S", "W">>) THEN CAT.switch
             ELSE IF \E prefix \in ConnectorMarks : Contains(designator_str, prefix)
             THEN CAT.connector
             ELSE CAT.other

classify_component(d) ==
    IF isna(d)
    THEN CAT.unknown
    ELSE LET designator_str == Upper(Strip(d))
         IN  IF StartsWith(designator_str, <<"R">>) THEN CAT.resistor
             ELSE IF StartsWith(designator_str, <<"C">>) THEN CAT.capacitor
             ELSE IF StartsWith(designator_str, <<"L", "E", "D">>) THEN CAT.diode
             ELSE IF StartsWith(designator_str, <<"Q">>) THEN CAT.transistor
             ELSE IF StartsWith(designator_str, <<"U">>) THEN CAT.ic
             ELSE IF StartsWith(designator_str, <<"S", "W">>) THEN CAT.switch
             ELSE IF \E prefix \in ConnectorMarks : Contains(designator_str, prefix)
             THEN CAT.connector
             ELSE CAT.other

\* The designator cells the classifier is tried on: a missing cell and every
\* string over the letters its rules read, a digit, a space and two lower-case
\* letters.
DesignatorChars == {"R", "C", "L", "E", "D", "Q", "U", "S", "W", "J", "N", "B",
                    "X", "1", " ", "j", "r"}
Designators == {NaN} \cup StringsUpTo(DesignatorChars, MaxDesLen)

InitClassify ==
    /\ pc = "classify"
    /\ designator \in Designators
    /\ category = Idle
    /\ record_type = Idle
    /\ FilterIdle
    /\ RunIdle
    /\ UnitIdle

\* process_bom_file, step 3: the type column is classify_component of the
\* designator column.
Classify ==
    /\ pc = "classify"
    /\ category' = classify_component(designator)
    /\ pc' = "classified"
    /\ UNCHANGED <<designator, record_type, filterVars, runVars, unitVars>>

\* process_bom_file, "clean the field contents": the type cell of the record.
CleanType ==
    /\ pc = "classified"
    /\ record_type' = clean_invalid_content(category)
    /\ pc' = "emitted"
    /\ UNCHANGED <<designator, category, filterVars, runVars, unitVars>>

NextClassify == Classify \/ CleanType

SpecClassify == InitClassify /\ [][NextClassify]_vars

\* The designator as the rules read it.
Folded == Upper(Strip(designator))

HasPrefix(p) == Len(Folded) >= Len(p) /\ \A i \in 1..Len(p) : Folded[i] = p[i]

HasMark(p) == \E i \in 1..Len(Folded) : \A k \in 1..Len(p) :
                  i + k - 1 <= Len(Folded) /\ Folded[i + k - 1] = p[k]

\* C6: classify_component returns exactly one category for every designator
\* string, the first of R, C, LED, Q, U, SW (prefixes), then J / CN / USB
\* (anywhere), then other, that applies to the trimmed upper-cased designator;
\* the type cell of the emitted record is that category and is never empty.
C6_FirstMatchWins ==
    (pc \in {"classified", "emitted"} /\ ~isna(designator)) =>
        LET r == HasPrefix(<<"R">>)
            c == ~r /\ HasPrefix(<<"C">>)
            led == ~r /\ ~c /\ HasPrefix(<<"L", "E", "D">>)
            q == ~r /\ ~c /\ ~led /\ HasPrefix(<<"Q">>)
            u == ~r /\ ~c /\ ~led /\ ~q /\ HasPrefix(<<"U">>)
            sw == ~r /\ ~c /\ ~led /\ ~q /\ ~u /\ HasPrefix(<<"S", "W">>)
            conn == /\ ~r /\ ~c /\ ~led /\ ~q /\ ~u /\ ~sw
                    /\ (HasMark(<<"J">>) \/ HasMark(<<"C", "N">>) \/ HasMark(<<"U", "S", "B">>))
        IN  /\ category \in Categories
            /\ (category = CAT.resistor) <=> r
            /\ (category = CAT.capacitor) <=> c
            /\ (category = CAT.diode) <=> led
            /\ (category = CAT.transistor) <=> q
            /\ (category = CAT.ic) <=> u
            /\ (category = CAT.switch) <=> sw
            /\ (category = CAT.connector) <=> conn
            /\ (category = CAT.other) <=> ~(r \/ c \/ led \/ q \/ u \/ sw \/ conn)
            /\ pc = "emitted" => (record_type = category /\ ~isna(record_type))

\* A designator that starts with C and holds a J was classified: the prefix
\* rule won over the connector rule.
C6_Witness ==
    /\ pc = "emitted"
    /\ ~isna(designator)
    /\ HasPrefix(<<"C">>)
    /\ HasMark(<<"J">>)
    /\ category = CAT.capacitor
    /\ record_type = CAT.capacitor

\* C7: a designator that is missing, empty, or empty after trimming is
\* classified unknown.
C7_EmptyIsUnknown ==
    (pc \in {"classified", "emitted"} /\ (isna(designator) \/ Strip(designator) = <<>>)) =>
        category = CAT.unknown

(***************************************************************************)
(* SpecFilter: one table, read by both scripts, and the rows each keeps.   *)
(***************************************************************************)
\* The content of a cell no filter reads.
FixedCell == <<"v">>

CellChars == {" ", "u3000", "\t", "x"}
IndicatorCells == {NaN} \cup StringsUpTo(CellChars, MaxCellLen)

\* Header rows: the exact core columns; one label padded with spaces; a
\* remarks column whose label contains an indicator label, before the core
\* columns; no taobao column; English indicator labels.
HV_exact == bom_core_columns
HV_padded == [i \in 1..Len(bom_core_columns) |->
                 IF bom_core_columns[i] = COL.taobao THEN HDR.taobao_padded
                 ELSE bom_core_columns[i]]
HV_note == <<HDR.order_note>> \o bom_core_columns
HV_no_taobao == SelectSeq(bom_core_columns, LAMBDA h : h # COL.taobao)
HV_english == SubSeq(bom_core_columns, 1, 6) \o <<HDR.taobao_url, HDR.spec, HDR.moq>>
HeaderVariants == {HV_exact, HV_padded, HV_note, HV_no_taobao, HV_english}

\* Which chosen cell a column of the table shows: 0 for the fixed content.
CellSlot(h) ==
    IF h \in {COL.taobao, HDR.taobao_padded, HDR.taobao_url} THEN 1
    ELSE IF h \in {COL.order, HDR.spec} THEN 2
    ELSE IF h \in {COL.moq, HDR.moq} THEN 3
    ELSE IF h = HDR.order_note THEN 4
    ELSE 0

RowOf(hs, v) == [i \in 1..Len(hs) |-> IF CellSlot(hs[i]) = 0 THEN FixedCell ELSE v[CellSlot(hs[i])]]

NoteCells(hs) == IF \E i \in 1..Len(hs) : hs[i] = HDR.order_note THEN {NaN, <<"x">>} ELSE {NaN}

\* A one-row table as pd.read_excel returns it (row label 0).
TableOf(hs, t, o, m, e) == DataFrame(hs, <<0>>, <<RowOf(hs, <<t, o, m, e>>)>>)

FilterPath == PathOf(<<"s", "u", "b">>, <<"B", "O", "M", "_", "Z", "-", "v", "1", ".", "0", ".", "x", "l", "s", "x">>)

InitFilter ==
    /\ pc = "filter"
    /\ \E hs \in HeaderVariants :
           \E t \in IndicatorCells, o \in IndicatorCells, m \in IndicatorCells, e \in NoteCells(hs) :
               table = TableOf(hs, t, o, m, e)
    /\ self_kept = Idle
    /\ non_self_kept = Idle
    /\ ClassifyIdle
    /\ RunIdle
    /\ UnitIdle

\* extract_and_format_bom on the table: the labels of the rows it keeps, none
\* when the file is skipped for a missing core column.
SelfPurchaseFilter ==
    /\ pc = "filter"
    /\ LET df == StripColumns(table)
       IN  self_kept' = IF MissingColumns(df, bom_core_columns) # {}
                        THEN <<>>
                        ELSE SelfPurchaseRows(df).index
    /\ pc' = "judge"
    /\ UNCHANGED <<table, non_self_kept, classifyVars, runVars, unitVars>>

\* process_bom_file on the same table, up to judge_non_self_purchase.
JudgeFilter ==
    /\ pc = "judge"
    /\ non_self_kept' = judge_non_self_purchase(WithFilePath(table, FilterPath)).index
    /\ pc' = "filtered"
    /\ UNCHANGED <<table, self_kept, classifyVars, runVars, unitVars>>

NextFilter == SelfPurchaseFilter \/ JudgeFilter

SpecFilter == InitFilter /\ [][NextFilter]_vars

InSeq(x, seq) == \E i \in 1..Len(seq) : seq[i] = x

\* A cell with nothing in it: missing, or only whitespace characters.
BlankCell(cell) == isna(cell) \/ \A i \in 1..Len(cell) : cell[i] \in Whitespace

\* The indicator field does not stand in the way of non-self-purchase: no
\* column of the table resolves for it, or the cell of the resolved column is
\* blank.
IndicatorAbsent(r, variants) ==
    LET col == match_column_name(table.columns, variants)
    IN  isna(col) \/ BlankCell(CellAt(table, r, col))

\* C1: judge_non_self_purchase keeps a row if and only if each of taobao_link,
\* order_config and min_order is unresolved or has a blank cell (nothing left
\* after trimming and removing full-width space, tab, newline, carriage
\* return); an unresolved field counts exactly as a blank cell.
C1_NonSelfIffAllAbsent ==
    pc = "filtered" =>
        \A r \in Rows(table) :
            InSeq(table.index[r], non_self_kept) <=>
                /\ IndicatorAbsent(r, column_mapping.taobao_link)
                /\ IndicatorAbsent(r, column_mapping.order_config)
                /\ IndicatorAbsent(r, column_mapping.min_order)

\* A kept row of a table without a taobao column whose order cell is a
\* whitespace string, not a missing cell.
C1_Witness ==
    /\ pc = "filtered"
    /\ isna(match_column_name(table.columns, column_mapping.taobao_link))
    /\ ~isna(match_column_name(table.columns, column_mapping.order_config))
    /\ LET cell == CellAt(table, 1, match_column_name(table.columns, column_mapping.order_config))
       IN  ~isna(cell) /\ cell # <<>>
    /\ non_self_kept = <<0>>

\* C8: every row of a table that has all core columns of extract_and_format_bom
\* is kept by exactly one of the two filters.
C8_FiltersComplementary ==
    (pc = "filtered" /\ MissingColumns(StripColumns(table), bom_core_columns) = {}) =>
        \A r \in Rows(table) :
            InSeq(table.index[r], self_kept) <=> ~InSeq(table.index[r], non_self_kept)

(***************************************************************************)
(* File names: the discovery patterns and the module name.                 *)
(***************************************************************************)
PFX_BOM == <<"B", "O", "M", "_">>
PFX_MODACC == <<"M", "o", "d", "A", "c", "c", "_">>
Digits == {"0", "1", "2", "3", "4", "5", "6", "7", "8", "9"}

\* One pattern character against one character of the name.
CharEq(a, b, ignorecase) == IF ignorecase THEN LowerChar(a) = LowerChar(b) ELSE a = b

\* The literal lit stands in s at position pos.
LiteralAt(s, pos, lit, ignorecase) ==
    /\ pos >= 1
    /\ pos + Len(lit) - 1 <= Len(s)
    /\ \A k \in 1..Len(lit) : CharEq(s[pos + k - 1], lit[k], ignorecase)

\* \d+ is exactly s[a..b]
IsDigits(s, a, b) == a <= b /\ \A i \in a..b : s[i] \in Digits

\* s from position from on matches -v\d+\.\d+(\.\d+)?\.(ext|ext)$ with the
\* version letter vtag.
VersionTail(s, from, vtag, exts, ignorecase) ==
    \E ext \in exts :
        LET e0 == Len(s) - Len(ext) + 1
        IN  /\ e0 - 1 >= from
            /\ LiteralAt(s, e0, ext, ignorecase)
            /\ s[e0 - 1] = "."
            /\ LiteralAt(s, from, <<"-", vtag>>, ignorecase)
            /\ \E d \in (from + 2)..(e0 - 2) :
                   /\ s[d] = "."
                   /\ IsDigits(s, from + 2, d - 1)
                   /\ \/ IsDigits(s, d + 1, e0 - 2)
                      \/ \E d2 \in (d + 1)..(e0 - 2) :
                             /\ s[d2] = "."
                             /\ IsDigits(s, d + 1, d2 - 1)
                             /\ IsDigits(s, d2 + 1, e0 - 2)

\* Where group 1, the (.+) after the prefix, can end in a match of the whole
\* pattern ^PREFIX(.+)-v...$ on s.
GroupEnds(s, prefix, vtag, exts, ignorecase) ==
    {i \in (Len(prefix) + 1)..Len(s) :
        LiteralAt(s, 1, prefix, ignorecase) /\ VersionTail(s, i + 1, vtag, exts, ignorecase)}

PatternMatches(s, prefix, vtag, exts, ignorecase) ==
    GroupEnds(s, prefix, vtag, exts, ignorecase) # {}

\* re.sub(pattern, r'\1', s): the greedy group 1 when the pattern matches, s
\* itself when it does not.
SubGroup1(s, prefix, vtag, exts, ignorecase) ==
    LET ends == GroupEnds(s, prefix, vtag, exts, ignorecase)
    IN  IF ends = {}
        THEN s
        ELSE SubSeq(s, Len(prefix) + 1, CHOOSE i \in ends : \A k \in ends : k <= i)

BomExts == {<<"x", "l", "s", "x">>, <<"x", "l", "s">>}
AccExts == {<<"x", "l", "s", "x">>}

\* bom_file_pattern.match(file_name), compiled with re.IGNORECASE
bom_file_pattern(file_name) == PatternMatches(file_name, PFX_BOM, "v", BomExts, TRUE)

\* accessory_file_pattern.match(file_name), compiled with re.IGNORECASE
accessory_file_pattern(file_name) == PatternMatches(file_name, PFX_MODACC, "V", AccExts, TRUE)

\* find_bom_files: ^[Bb][0Oo][Mm] and a lower-case .xlsx / .xls ending
find_bom_files_accepts(filename) ==
    /\ Len(filename) >= 3
    /\ LowerChar(filename[1]) = "b"
    /\ LowerChar(filename[2]) \in {"0", "o"}
    /\ LowerChar(filename[3]) = "m"
    /\ (EndsWith(filename, EXT_XLSX) \/ EndsWith(filename, EXT_XLS))

\* The flags re.sub runs the module-name pattern with.  The call is
\* re.sub(pattern, r'\1', file_name, re.IGNORECASE): the fourth positional
\* parameter of re.sub is count, so re.IGNORECASE is taken as a count of 2
\* and the pattern is matched with no flag.
SubIgnoresCase == FALSE

\* module_name of extract_and_format_bom
bom_module_name(file_name) == SubGroup1(file_name, PFX_BOM, "v", BomExts, SubIgnoresCase)

\* module_name of extract_and_format_accessory
accessory_module_name(file_name) == SubGroup1(file_name, PFX_MODACC, "V", AccExts, SubIgnoresCase)

(***************************************************************************)
(* Numbers, sums and order.                                                *)
(***************************************************************************)
DigitValue == [c \in Digits |->
                  CASE c = "0" -> 0 [] c = "1" -> 1 [] c = "2" -> 2 [] c = "3" -> 3 [] c = "4" -> 4
                    [] c = "5" -> 5 [] c = "6" -> 6 [] c = "7" -> 7 [] c = "8" -> 8 [] c = "9" -> 9]

RECURSIVE ParseDigits(_)
ParseDigits(s) ==
    IF s = <<>> THEN 0 ELSE 10 * ParseDigits(SubSeq(s, 1, Len(s) - 1)) + DigitValue[s[Len(s)]]

\* pd.to_numeric(cell, errors='coerce').fillna(0) for the cells of the model:
\* a string of digits is its number, a missing cell and any other string 0.
to_numeric_fillna(cell) ==
    IF ~isna(cell) /\ cell # <<>> /\ (\A i \in 1..Len(cell) : cell[i] \in Digits)
    THEN ParseDigits(cell)
    ELSE 0

RECURSIVE SumSeq(_)
SumSeq(s) == IF s = <<>> THEN 0 ELSE Head(s) + SumSeq(Tail(s))

\* The characters of the model's strings in code point order.
CodePoints == <<" ", "-", ".", "/", "0", "1", "2", "3", "4", "5", "6", "7", "8", "9",
                "A", "B", "C", "D", "E", "F", "G", "H", "I", "J", "K", "L", "M",
                "N", "O", "P", "Q", "R", "S", "T", "U", "V", "W", "X", "Y", "Z", "_",
                "a", "b", "c", "d", "e", "f", "g", "h", "i", "j", "k", "l", "m",
                "n", "o", "p", "q", "r", "s", "t", "u", "v", "w", "x", "y", "z">>
Ord == [c \in {CodePoints[i] : i \in 1..Len(CodePoints)} |->
           CHOOSE i \in 1..Len(CodePoints) : CodePoints[i] = c]

\* a < b for Python strings
RECURSIVE StrLess(_, _)
StrLess(a, b) ==
    IF b = <<>> THEN FALSE
    ELSE IF a = <<>> THEN TRUE
    ELSE IF Head(a) = Head(b) THEN StrLess(Tail(a), Tail(b))
    ELSE Ord[Head(a)] < Ord[Head(b)]

\* a < b for the cells of a sort column: missing cells last
CellLess(a, b) == IF isna(a) THEN FALSE ELSE IF isna(b) THEN TRUE ELSE StrLess(a, b)

Orderings(n) == {f \in [1..n -> 1..n] : \A i, j \in 1..n : f[i] = f[j] => i = j}

\* pd.concat(dfs, ignore_index=True) of tables with the same columns
RECURSIVE ConcatData(_)
ConcatData(dfs) == IF dfs = <<>> THEN <<>> ELSE Head(dfs).data \o ConcatData(Tail(dfs))

concat(dfs) ==
    LET data == ConcatData(dfs)
    IN  DataFrame(dfs[1].columns, [i \in 1..Len(data) |-> i - 1], data)

\* A plausible slip: keep='last'.
drop_duplicates_keep_last(df, subset) ==
    SelectRows(df, [r \in Rows(df) |->
                       ~\E q \in (r + 1)..Len(df.data) :
                           \A c \in 1..Len(subset) : CellAt(df, q, subset[c]) = CellAt(df, r, subset[c])])

\* A plausible slip: a missing cell equal to nothing, not even to another
\* missing cell.
drop_duplicates_na_distinct(df, subset) ==
    SelectRows(df, [r \in Rows(df) |->
                       ~\E q \in 1..(r - 1) :
                           \A c \in 1..Len(subset) :
                               /\ ~isna(CellAt(df, r, subset[c]))
                               /\ CellAt(df, q, subset[c]) = CellAt(df, r, subset[c])])

\* df.drop_duplicates(subset=subset, keep='first'): a row stays unless a row
\* before it has the same cells in the subset columns (missing equals missing).
drop_duplicates(df, subset) ==
    SelectRows(df, [r \in Rows(df) |->
                       ~\E q \in 1..(r - 1) :
                           \A c \in 1..Len(subset) : CellAt(df, q, subset[c]) = CellAt(df, r, subset[c])])

\* A plausible slip: reset_index() without drop=True, the old labels kept as
\* a first column 'index'.
reset_index_keep(df) ==
    [df EXCEPT !.columns = <<<<"i", "n", "d", "e", "x">>>> \o df.columns,
               !.index = [i \in 1..Len(df.data) |-> i - 1],
               !.data = [i \in 1..Len(df.data) |-> <<df.index[i]>> \o df.data[i]]]

\* reset_index(drop=True)
reset_index(df) == [df EXCEPT !.index = [i \in 1..Len(df.data) |-> i - 1]]

\* The directory and the file names of the runs.
DIR_SUB == <<"s", "u", "b">>
NAME == [bom_z |-> <<"B", "O", "M", "_", "Z", "-", "v", "1", ".", "0", ".", "x", "l", "s", "x">>,
         bom_a |-> <<"B", "O", "M", "_", "A", "-", "V", "1", ".", "0", ".", "x", "l", "s">>,
         acc_z |-> <<"M", "o", "d", "A", "c", "c", "_", "Z", "-", "V", "1", ".", "0", ".", "x", "l", "s", "x">>,
         acc_a |-> <<"M", "o", "d", "A", "c", "c", "_", "A", "-", "v", "1", ".", "0", ".", "x", "l", "s", "x">>]

(***************************************************************************)
(* The three scripts.                                                      *)
(***************************************************************************)
Pipelines == {"bom", "accessory", "non_self"}
SelfPurchase == {"bom", "accessory"}


acc_core_columns == <<COL.no, COL.quantity, COL.manufacturer_part, COL.price, COL.value,
                      COL.taobao, COL.order, COL.moq>>

core_columns(p) == IF p = "accessory" THEN acc_core_columns ELSE bom_core_columns

numeric_cols(p) == IF p = "accessory" THEN {COL.quantity, COL.price, COL.value}
                   ELSE {COL.quantity, COL.lcsc_price, COL.value}

unique_type_cols(p) ==
    IF p = "accessory" THEN <<COL.manufacturer_part, COL.price, COL.taobao>>
    ELSE <<COL.manufacturer_part, COL.supplier_part, COL.lcsc_price, COL.taobao>>

total_col(p) == IF p = "accessory" THEN COL.total_acc ELSE COL.total_bom

module_name(p, file_name) ==
    IF p = "accessory" THEN accessory_module_name(file_name) ELSE bom_module_name(file_name)

\* Whether the script's directory walk takes the file.
Discovered(p, file_name) ==
    IF p = "bom" THEN bom_file_pattern(file_name)
    ELSE IF p = "accessory" THEN accessory_file_pattern(file_name)
    ELSE find_bom_files_accepts(file_name)

\* A plausible slip: dropna() for fillna(0), a row with a cell that is no
\* number is dropped.
to_numeric_columns_dropna(p, df) ==
    LET good(r) == \A c \in 1..Len(df.columns) :
                       df.columns[c] \in numeric_cols(p) =>
                           /\ ~isna(df.data[r][c])
                           /\ df.data[r][c] # <<>>
                           /\ \A i \in 1..Len(df.data[r][c]) : df.data[r][c][i] \in Digits
        kept == SelectRows(df, [r \in Rows(df) |-> good(r)])
    IN  [kept EXCEPT !.data = [r \in Rows(kept) |->
                                 [c \in 1..Len(kept.columns) |->
                                     IF kept.columns[c] \in numeric_cols(p)
                                     THEN ParseDigits(kept.data[r][c])
                                     ELSE kept.data[r][c]]]]

\* The numeric columns of df_calc converted.
to_numeric_columns(p, df) ==
    [df EXCEPT !.data = [r \in Rows(df) |->
                            [c \in 1..Len(df.columns) |->
                                IF df.columns[c] \in numeric_cols(p)
                                THEN to_numeric_fillna(df.data[r][c])
                                ELSE df.data[r][c]]]]

\* df.insert(0, col, value)
insert_first(df, col, value) ==
    [df EXCEPT !.columns = <<col>> \o df.columns,
               !.data = [r \in Rows(df) |-> <<value>> \o df.data[r]]]

\* df[cols] where a column that is not there reads as missing cells
\* (df.reindex(columns=cols)).
reindex_columns(df, cols) ==
    [df EXCEPT !.columns = cols,
               !.data = [r \in Rows(df) |->
                            [c \in 1..Len(cols) |->
                                IF HasColumn(df, cols[c]) THEN CellAt(df, r, cols[c]) ELSE NaN]]]

\* A plausible slip: no check of the core columns, the columns that are there
\* taken and the others left missing.
extract_self_purchase_partial(p, df_read, file_name) ==
    LET df == StripColumns(df_read)
        df_filtered == SelfPurchaseRows(df)
    IN  IF df_filtered.data = <<>>
        THEN <<>>
        ELSE <<insert_first(to_numeric_columns(p, reindex_columns(df_filtered, core_columns(p))),
                            COL.module, module_name(p, file_name))>>

\* The body of the try block of a self-purchase script for a table that was
\* read: the table the file adds to the list, or nothing.
extract_self_purchase(p, df_read, file_name) ==
    LET df == StripColumns(df_read)
    IN  IF MissingColumns(df, core_columns(p)) # {}
        THEN <<>>
        ELSE LET df_filtered == SelfPurchaseRows(df)
             IN  IF df_filtered.data = <<>>
                 THEN <<>>
                 ELSE <<insert_first(to_numeric_columns(p, Project(df_filtered, core_columns(p))),
                                     COL.module, module_name(p, file_name))>>


field_mapping == [
    designator |->
        << <<"d", "e", "s", "i", "g", "n", "a", "t", "o", "r">>,
           <<"wei4", "hao4">>,
           <<"yuan2", "jian4", "wei4", "hao4">> >>,
    supplier_part |->
        << <<"s", "u", "p", "p", "l", "i", "e", "r", " ", "p", "a", "r", "t">>,
           <<"li4", "chuang4", "bian1", "hao4">>,
           <<"gong1", "ying4", "shang1", "bian1", "hao4">>,
           <<"s", "u", "p", "p", "l", "i", "e", "r", " ", "p", "/", "n">> >>,
    manufacturer_part |->
        << <<"m", "a", "n", "u", "f", "a", "c", "t", "u", "r", "e", "r", " ", "p", "a", "r", "t">>,
           <<"qi4", "jian4", "xing2", "hao4">>,
           <<"xing2", "hao4">>,
           <<"m", "f", "r", " ", "p", "/", "n">>,
           <<"m", "a", "n", "u", "f", "a", "c", "t", "u", "r", "e", "r", " ", "p", "/", "n">> >>,
    manufacturer |->
        << <<"m", "a", "n", "u", "f", "a", "c", "t", "u", "r", "e", "r">>,
           <<"zhi4b", "zao4", "shang1">>,
           <<"pin3", "pai2">> >> ]

\* The element of a one-element set.  TheOne({F(v) : v \in {e}}) is F(e) with e
\* worked out once.
TheOne(S) == CHOOSE x \in S : TRUE

\* A plausible slip: a label is taken only when it is the variant name, letter
\* case aside, so no label serves two fields.
MatchOr_exact(df_columns, target_names, default) ==
    LET col == match_column_name(df_columns, target_names)
    IN  IF Truthy(col) /\ \E t \in 1..Len(target_names) : Lower(col) = Lower(target_names[t])
        THEN col
        ELSE default

\* match_column_name(...) or default
MatchOr(df_columns, target_names, default) ==
    LET col == match_column_name(df_columns, target_names)
    IN  IF Truthy(col) THEN col ELSE default

\* "if col not in non_self_df.columns: non_self_df[col] = np.nan"
EnsureColumn(df, col) ==
    IF HasColumn(df, col) THEN df ELSE SetColumn(df, col, [r \in Rows(df) |-> NaN])

\* The body of the try block of process_bom_file for a table that was read:
\* the table the file adds to the list, or nothing (None, or an empty table).
extract_non_self(df_read, file_path) ==
    LET df == WithFilePath(df_read, file_path)
        designator_col == MatchOr(df.columns, field_mapping.designator, COL.designator)
        supplier_part_col == MatchOr(df.columns, field_mapping.supplier_part, COL.supplier_part)
        manufacturer_part_col ==
            MatchOr(df.columns, field_mapping.manufacturer_part, COL.manufacturer_part)
        manufacturer_col == MatchOr(df.columns, field_mapping.manufacturer, COL.manufacturer)
        Cleaned(result_df) ==
            <<[result_df EXCEPT
                 !.columns = <<COL.module, COL.designator, COL.supplier_part, COL.type,
                               COL.manufacturer_part, COL.manufacturer>>,
                 !.data = [r \in Rows(result_df) |->
                              [c \in 1..6 |-> clean_invalid_content(result_df.data[r][c])]]]>>
        Typed(ensured) ==
            TheOne({Cleaned(result_df) : result_df \in
                       {Project(SetColumn(ensured, COL.type,
                                          [r \in Rows(ensured) |->
                                              classify_component(CellAt(ensured, r, designator_col))]),
                                <<COL.module, designator_col, supplier_part_col,
                                  COL.type, manufacturer_part_col, manufacturer_col>>)}})
        Judged(non_self_df) ==
            IF non_self_df.data = <<>>
            THEN <<>>
            ELSE TheOne({Typed(ensured) : ensured \in
                            {EnsureColumn(EnsureColumn(EnsureColumn(EnsureColumn(
                                 non_self_df, designator_col), supplier_part_col),
                                 manufacturer_part_col), manufacturer_col)}})
    IN  TheOne({Judged(non_self_df) : non_self_df \in {judge_non_self_purchase(df)}})

\* What one file adds to the list.
extract(p, file) ==
    IF p = "non_self"
    THEN extract_non_self(file.df, PathOf(DIR_SUB, file.name))
    ELSE extract_self_purchase(p, file.df, file.name)

\* A plausible slip: the failure of one file discards what was collected.
loop_body_abort(p, collected, file) ==
    IF ~file.readable THEN <<>> ELSE collected \o extract(p, file)

\* One turn of the loop over the discovered files: the list after the file.
\* pd.read_excel raises for an unreadable file, and the except clause of the
\* turn (of process_bom_file) leaves the list as it is.
loop_body(p, collected, file) ==
    IF ~file.readable THEN collected ELSE collected \o extract(p, file)

\* deduplicate_components
deduplicate_components(all_df) ==
    IF all_df.data = <<>> THEN all_df ELSE drop_duplicates(all_df, <<COL.supplier_part>>)

\* df.fillna('无')
fillna(df) ==
    [df EXCEPT !.data = [r \in Rows(df) |->
                            [c \in 1..Len(df.columns) |->
                                IF isna(df.data[r][c]) THEN <<"wu2">> ELSE df.data[r][c]]]]

\* A plausible slip: the third condition left out.
special_mask_missing_only(components_df) ==
    [r \in Rows(components_df) |->
        \/ isna(CellAt(components_df, r, COL.designator))
        \/ isna(CellAt(components_df, r, COL.supplier_part))]

\* condition1 | condition2 | condition3 of split_regular_special, row by row.
special_mask(components_df) ==
    [r \in Rows(components_df) |->
        \/ isna(CellAt(components_df, r, COL.designator))
        \/ isna(CellAt(components_df, r, COL.supplier_part))
        \/ CellAt(components_df, r, COL.type) = CAT.other]

\* split_regular_special: the regular and the special records, under their
\* output labels, missing cells filled.
split_regular_special(components_df) ==
    LET special == special_mask(components_df)
        special_rows == SelectRows(components_df, special)
        regular_rows == SelectRows(components_df, [r \in Rows(components_df) |-> ~special[r]])
        regular_final == [Project(regular_rows,
                                  <<COL.type, COL.manufacturer_part, COL.supplier_part>>)
                             EXCEPT !.columns = <<COL.type, COL.name, COL.number>>]
        special_final == [Project(special_rows,
                                  <<COL.module, COL.type, COL.manufacturer_part,
                                    COL.supplier_part>>)
                             EXCEPT !.columns = <<COL.module, COL.type, COL.name, COL.number>>]
    IN  [regular |-> fillna(regular_final), special |-> fillna(special_final)]


(***************************************************************************)
(* Sorting, grouping and merging.                                          *)
(***************************************************************************)
\* df[col] as a sequence
ColumnOf(df, col) == [r \in Rows(df) |-> CellAt(df, r, col)]

\* Row a may not stand after row b: a sorts strictly before b.
RowLess(p, df, a, b) ==
    LET ma == CellAt(df, a, COL.module)
        mb == CellAt(df, b, COL.module)
    IN  IF p = "accessory"
        THEN \/ StrLess(ma, mb)
             \/ ma = mb /\ CellLess(CellAt(df, a, COL.no), CellAt(df, b, COL.no))
        ELSE StrLess(ma, mb)

\* The row orders sort_values can produce.  by=['模块名称', 'No.'] sorts with
\* the stable lexsort: rows with equal keys keep their order.  by='模块名称'
\* sorts with the default kind 'quicksort', which does not promise an order
\* among rows with equal keys.
sort_orders(p, df) ==
    {o \in Orderings(Len(df.data)) :
        \A i, j \in Rows(df) :
            i < j => /\ ~RowLess(p, df, o[j], o[i])
                     /\ (p = "accessory" /\ ~RowLess(p, df, o[i], o[j])) => o[i] < o[j]}

\* A plausible slip: the sort left out.
sort_values_skipped(df, o) == df

\* The table in one of those orders, each row under its own label.
sort_values(df, o) ==
    [df EXCEPT !.index = [i \in Rows(df) |-> df.index[o[i]]],
               !.data = [i \in Rows(df) |-> df.data[o[i]]]]

\* The elements of a set of strings as a sorted sequence.
RECURSIVE SortedKeys(_)
SortedKeys(S) ==
    IF S = {}
    THEN <<>>
    ELSE LET least == CHOOSE x \in S : \A y \in S : ~StrLess(y, x)
         IN  <<least>> \o SortedKeys(S \ {least})

\* The Value cells of the rows of one module, in row order.
RECURSIVE GroupValues(_, _, _)
GroupValues(df, key, r) ==
    IF r > Len(df.data)
    THEN <<>>
    ELSE IF CellAt(df, r, COL.module) = key
         THEN <<CellAt(df, r, COL.value)>> \o GroupValues(df, key, r + 1)
         ELSE GroupValues(df, key, r + 1)

\* A plausible slip: .first() for .sum().
groupby_first(df, name) ==
    LET keys == SortedKeys({CellAt(df, r, COL.module) : r \in Rows(df)})
    IN  DataFrame(<<COL.module, name>>, [i \in 1..Len(keys) |-> i - 1],
                  [i \in 1..Len(keys) |-> <<keys[i], Head(GroupValues(df, keys[i], 1))>>])

\* A plausible slip: the sum taken over the distinct types.
groupby_sum_unique(df, name) ==
    LET p == IF name = COL.total_acc THEN "accessory" ELSE "bom"
        unique == drop_duplicates(df, unique_type_cols(p))
        keys == SortedKeys({CellAt(df, r, COL.module) : r \in Rows(df)})
    IN  DataFrame(<<COL.module, name>>, [i \in 1..Len(keys) |-> i - 1],
                  [i \in 1..Len(keys) |-> <<keys[i], SumSeq(GroupValues(unique, keys[i], 1))>>])

\* df.groupby('模块名称')['Value'].sum().reset_index(), the sum column renamed:
\* one row per module, the modules sorted.
groupby_sum(df, name) ==
    LET keys == SortedKeys({CellAt(df, r, COL.module) : r \in Rows(df)})
    IN  DataFrame(<<COL.module, name>>, [i \in 1..Len(keys) |-> i - 1],
                  [i \in 1..Len(keys) |-> <<keys[i], SumSeq(GroupValues(df, keys[i], 1))>>])

\* pd.merge(df, totals, on='模块名称', how='left') and the column order
\* module, total, core columns: the rows of df in their order, relabelled.
merge_total(p, df, totals) ==
    LET total_of(key) == totals.data[CHOOSE i \in Rows(totals) : totals.data[i][1] = key][2]
    IN  DataFrame(<<COL.module, total_col(p)>> \o core_columns(p),
                  [r \in Rows(df) |-> r - 1],
                  [r \in Rows(df) |-> <<df.data[r][1], total_of(df.data[r][1])>> \o Tail(df.data[r])])

\* The sum of a set of numbers.
RECURSIVE SumSet(_)
SumSet(S) == IF S = {} THEN 0 ELSE LET x == CHOOSE x \in S : TRUE IN x + SumSet(S \ {x})

\* The grand total of the statistics.
grand_total(p, df) ==
    IF p = "accessory"
    THEN SumSet({CellAt(df, r, COL.total_acc) : r \in Rows(df)})
    ELSE SumSeq(ColumnOf(drop_duplicates(df, <<COL.module>>), COL.total_bom))

\* The table of distinct types.
unique_types(p, df) ==
    LET unique == reset_index(drop_duplicates(Project(df, core_columns(p)), unique_type_cols(p)))
    IN  IF p = "accessory"
        THEN SetColumn(unique, COL.no, [r \in Rows(unique) |-> r])
        ELSE unique

(***************************************************************************)
(* The runs of the three scripts over a directory of workbooks.            *)
(***************************************************************************)
CELL == [m1 |-> <<"M", "1">>,
         m2 |-> <<"M", "2">>,
         s1 |-> <<"S", "1">>,
         s2 |-> <<"S", "2">>,
         r1 |-> <<"R", "1">>,
         j2 |-> <<"J", "2">>,
         c3 |-> <<"C", "3">>,
         url |-> <<"x">>,
         blank |-> <<" ">>,
         x1 |-> <<"X", "1">>]

\* Rows of a BOM workbook under bom_core_columns: two self-purchase rows of
\* one type, a self-purchase row of another type, and a row with no indicator.
BomRows == << <<CELL.m1, <<"1">>, CELL.r1, CELL.s1, <<"1">>, <<"2">>, CELL.url, NaN, NaN>>,
              <<CELL.m1, <<"2">>, CELL.j2, CELL.s1, <<"1">>, <<"3">>, CELL.url, NaN, NaN>>,
              <<CELL.m2, <<"1">>, CELL.c3, CELL.s2, <<"2">>, <<"2">>, NaN, CELL.url, NaN>>,
              <<CELL.m2, <<"1">>, CELL.c3, CELL.s2, <<"2">>, <<"2">>, NaN, CELL.blank, NaN>> >>

\* Rows of an accessory workbook under acc_core_columns.
AccRows == << <<<<"2">>, <<"1">>, CELL.m1, <<"1">>, <<"2">>, CELL.url, NaN, NaN>>,
              <<<<"1">>, <<"2">>, CELL.m1, <<"1">>, <<"3">>, CELL.url, NaN, NaN>>,
              <<<<"3">>, <<"1">>, CELL.m2, <<"2">>, <<"2">>, NaN, CELL.url, NaN>>,
              <<<<"4">>, <<"1">>, CELL.m2, <<"2">>, <<"2">>, NaN, CELL.blank, NaN>> >>

\* Rows of a BOM workbook as the non-self-purchase script meets them: two
\* rows with no indicator and one supplier part, one with another supplier
\* part, and a self-purchase row.
NonSelfRows == << <<CELL.m1, <<"1">>, CELL.r1, CELL.s1, <<"1">>, <<"2">>, NaN, NaN, NaN>>,
                  <<CELL.m2, <<"2">>, CELL.j2, CELL.s1, <<"1">>, <<"3">>, NaN, CELL.blank, NaN>>,
                  <<CELL.m2, <<"1">>, CELL.c3, CELL.s2, <<"2">>, <<"2">>, NaN, NaN, NaN>>,
                  <<CELL.m1, <<"1">>, CELL.r1, CELL.s1, <<"1">>, <<"2">>, CELL.url, NaN, NaN>> >>

TableRows(p) == IF p = "accessory" THEN AccRows ELSE IF p = "bom" THEN BomRows ELSE NonSelfRows
RowKinds == 1..4

FileNames(p) == IF p = "accessory" THEN <<NAME.acc_z, NAME.acc_a>> ELSE <<NAME.bom_z, NAME.bom_a>>

\* A workbook is well formed, lacks the Value column (a core column of the
\* self-purchase scripts), or cannot be read.
FileKinds(p) == IF p \in SelfPurchase THEN {"ok", "no_value", "unreadable"}
                ELSE {"ok", "unreadable"}

\* A sequence without its elements equal to x.
RECURSIVE Without(_, _)
Without(s, x) ==
    IF s = <<>> THEN <<>>
    ELSE IF Head(s) = x THEN Without(Tail(s), x) ELSE <<Head(s)>> \o Without(Tail(s), x)

\* A row without its k-th cell.
DropCell(row, k) == [c \in 1..(Len(row) - 1) |-> IF c < k THEN row[c] ELSE row[c + 1]]

\* The workbook of one kind with the given rows, as pd.read_excel returns it.
Workbook(p, kind, rows) ==
    IF kind = "no_value"
    THEN LET k == CHOOSE c \in 1..Len(core_columns(p)) : core_columns(p)[c] = COL.value
         IN  DataFrame(Without(core_columns(p), COL.value), [r \in 1..Len(rows) |-> r - 1],
                       [r \in 1..Len(rows) |-> DropCell(rows[r], k)])
    ELSE DataFrame(core_columns(p), [r \in 1..Len(rows) |-> r - 1], rows)

File(p, name, kind, rows) ==
    [name |-> name, readable |-> kind # "unreadable",
     df |-> IF kind = "unreadable" THEN Idle ELSE Workbook(p, kind, rows)]

\* The rows of the i-th file, cut from the rows of all files.
RowsOfFile(p, rws, cut, i) ==
    LET start == SumSeq(SubSeq(cut, 1, i - 1))
    IN  [r \in 1..cut[i] |-> TableRows(p)[rws[start + r]]]

Init ==
    /\ pc = "scan"
    /\ \E p \in Pipelines, n \in 0..MaxFiles :
         \E names \in [1..n -> {k \in 1..Len(FileNames(p)) : Discovered(p, FileNames(p)[k])}] :
           \E rws \in StringsUpTo(RowKinds, MaxRows) :
             \E cut \in [1..n -> 0..Len(rws)] :
               /\ SumSeq(cut) = Len(rws)
               /\ \E kinds \in [1..n -> FileKinds(p)] :
                    /\ \A i \in 1..n : kinds[i] = "unreadable" <=> cut[i] = 0
                    /\ \A i \in 1..n : kinds[i] = "no_value" =>
                                          /\ cut[i] = 1
                                          /\ rws[SumSeq(SubSeq(cut, 1, i))] = 1
                    /\ pipeline = p
                    /\ files = [i \in 1..n |->
                                   File(p, FileNames(p)[names[i]], kinds[i],
                                        RowsOfFile(p, rws, cut, i))]
    /\ idx = 0
    /\ all_components = <<>>
    /\ combined = Idle
    /\ module_total = Idle
    /\ df_unique = Idle
    /\ total = Idle
    /\ regular_df = Idle
    /\ special_df = Idle
    /\ ClassifyIdle
    /\ FilterIdle
    /\ UnitIdle

\* One turn of the loop of extract_and_format_bom or
\* extract_and_format_accessory over the discovered files.
ProcessFile ==
    /\ pc = "scan"
    /\ pipeline \in SelfPurchase
    /\ idx < Len(files)
    /\ all_components' = loop_body(pipeline, all_components, files[idx + 1])
    /\ idx' = idx + 1
    /\ UNCHANGED <<pc, pipeline, files, combined, module_total, df_unique, total,
                   regular_df, special_df, classifyVars, filterVars, unitVars>>

\* One turn of the loop of main over bom_files: process_bom_file and the
\* append of its result.
ProcessBomFile ==
    /\ pc = "scan"
    /\ pipeline = "non_self"
    /\ idx < Len(files)
    /\ all_components' = loop_body(pipeline, all_components, files[idx + 1])
    /\ idx' = idx + 1
    /\ UNCHANGED <<pc, pipeline, files, combined, module_total, df_unique, total,
                   regular_df, special_df, classifyVars, filterVars, unitVars>>

\* After the loop of a self-purchase script: return when nothing was
\* collected, else concat, sort, group, merge.
Aggregate ==
    /\ pc = "scan"
    /\ pipeline \in SelfPurchase
    /\ idx = Len(files)
    /\ IF all_components = <<>>
       THEN /\ pc' = "done"
            /\ UNCHANGED <<combined, module_total>>
       ELSE /\ \E o \in sort_orders(pipeline, concat(all_components)) :
                 LET sorted == sort_values(concat(all_components), o)
                     totals == groupby_sum(sorted, total_col(pipeline))
                 IN  /\ module_total' = totals
                     /\ combined' = merge_total(pipeline, sorted, totals)
            /\ pc' = "dedup"
    /\ UNCHANGED <<pipeline, files, idx, all_components, df_unique, total,
                   regular_df, special_df, classifyVars, filterVars, unitVars>>

\* The second output of a self-purchase script: the distinct types.
Deduplicate ==
    /\ pc = "dedup"
    /\ df_unique' = unique_types(pipeline, combined)
    /\ pc' = "stats"
    /\ UNCHANGED <<pipeline, files, idx, all_components, combined, module_total, total,
                   regular_df, special_df, classifyVars, filterVars, unitVars>>

\* The statistics printed at the end of a self-purchase script.
Statistics ==
    /\ pc = "stats"
    /\ total' = grand_total(pipeline, combined)
    /\ pc' = "done"
    /\ UNCHANGED <<pipeline, files, idx, all_components, combined, module_total, df_unique,
                   regular_df, special_df, classifyVars, filterVars, unitVars>>

\* main after its loop: return when nothing was collected, else concat.
Combine ==
    /\ pc = "scan"
    /\ pipeline = "non_self"
    /\ idx = Len(files)
    /\ IF all_components = <<>>
       THEN /\ pc' = "done"
            /\ UNCHANGED combined
       ELSE /\ combined' = concat(all_components)
            /\ pc' = "deduplicate"
    /\ UNCHANGED <<pipeline, files, idx, all_components, module_total, df_unique, total,
                   regular_df, special_df, classifyVars, filterVars, unitVars>>

\* main, step 4.
DeduplicateComponents ==
    /\ pc = "deduplicate"
    /\ df_unique' = deduplicate_components(combined)
    /\ pc' = "split"
    /\ UNCHANGED <<pipeline, files, idx, all_components, combined, module_total, total,
                   regular_df, special_df, classifyVars, filterVars, unitVars>>

\* main, step 5.
SplitRegularSpecial ==
    /\ pc = "split"
    /\ regular_df' = split_regular_special(df_unique).regular
    /\ special_df' = split_regular_special(df_unique).special
    /\ pc' = "done"
    /\ UNCHANGED <<pipeline, files, idx, all_components, combined, module_total, df_unique,
                   total, classifyVars, filterVars, unitVars>>

Next ==
    \/ ProcessFile
    \/ ProcessBomFile
    \/ Aggregate
    \/ Deduplicate
    \/ Statistics
    \/ Combine
    \/ DeduplicateComponents
    \/ SplitRegularSpecial

Spec == Init /\ [][Next]_vars

(***************************************************************************)
(* Properties of the runs.                                                 *)
(***************************************************************************)
\* The kept records in file discovery order and, within a file, row order.
Discovery == concat(all_components)

\* A self-purchase script has aggregated.
AggregatedSelf ==
    /\ pipeline \in SelfPurchase
    /\ all_components # <<>>
    /\ pc \in {"dedup", "stats", "done"}

\* The script has deduplicated.
DedupDone == all_components # <<>> /\ pc \in {"stats", "split", "done"}

\* The Value cells of the records of module m in table kept, 0 for the others.
ValuesOfModule(kept, m) ==
    [r \in Rows(kept) |->
        IF CellAt(kept, r, COL.module) = m THEN CellAt(kept, r, COL.value) ELSE 0]

\* C2: in the self-purchase scripts the module totals are per distinct module,
\* every kept record's module has exactly one total, each total is the sum of
\* the Value of the kept records of its module, and the totals add up to the
\* sum of the Value of all kept records.
C2_ModuleTotalsSumKeptValues ==
    AggregatedSelf =>
        LET kept == Discovery
        IN  /\ \A i, j \in Rows(module_total) :
                   module_total.data[i][1] = module_total.data[j][1] => i = j
            /\ \A r \in Rows(kept) :
                   \E i \in Rows(module_total) :
                       module_total.data[i][1] = CellAt(kept, r, COL.module)
            /\ \A i \in Rows(module_total) :
                   module_total.data[i][2] = SumSeq(ValuesOfModule(kept, module_total.data[i][1]))
            /\ SumSeq([i \in Rows(module_total) |-> module_total.data[i][2]])
                   = SumSeq(ColumnOf(kept, COL.value))

\* Two files of one module each gave a kept record, and the total is theirs.
C2_Witness ==
    /\ AggregatedSelf
    /\ Len(all_components) = 2
    /\ Len(module_total.data) = 1
    /\ module_total.data[1][2] = 5

\* C3: the grand total a self-purchase script reports equals the sum of the
\* module totals and the sum of the Value of all kept records.
C3_GrandTotalIsSumOfModuleTotals ==
    (AggregatedSelf /\ pc = "done") =>
        /\ total = SumSeq([i \in Rows(module_total) |-> module_total.data[i][2]])
        /\ total = SumSeq(ColumnOf(Discovery, COL.value))

\* The columns a deduplication compares.
KeyColumns == IF pipeline = "non_self" THEN <<COL.supplier_part>> ELSE unique_type_cols(pipeline)

\* The columns of a deduplicated record that come from its source record
\* (the accessory script renumbers No. afterwards).
RecordColumns == IF pipeline = "accessory" THEN Without(df_unique.columns, COL.no)
                 ELSE df_unique.columns

SameKey(A, a, B, b) ==
    \A c \in 1..Len(KeyColumns) : CellAt(A, a, KeyColumns[c]) = CellAt(B, b, KeyColumns[c])

SameRecord(A, a, B, b) ==
    \A c \in 1..Len(RecordColumns) : CellAt(A, a, RecordColumns[c]) = CellAt(B, b, RecordColumns[c])

FirstOfKey(W, a) == \A q \in 1..(a - 1) : ~SameKey(W, q, W, a)

\* The deduplicated table holds, for each key of W, the first record of W with
\* that key, whole, and nothing else.
SurvivorsAreFirstIn(W) ==
    /\ \A a \in Rows(W) :
           FirstOfKey(W, a) =>
               \E u \in Rows(df_unique) : SameKey(df_unique, u, W, a) /\ SameRecord(df_unique, u, W, a)
    /\ \A u, v \in Rows(df_unique) : SameKey(df_unique, u, df_unique, v) => u = v
    /\ \A u \in Rows(df_unique) :
           \E a \in Rows(W) :
               FirstOfKey(W, a) /\ SameKey(df_unique, u, W, a) /\ SameRecord(df_unique, u, W, a)

\* The module summary table is the kept records rearranged in ascending
\* module name (accessory: then ascending No. as text, equal records in
\* discovery order), each with its module's total.
SortedRearrangement ==
    LET kept == Discovery
    IN  /\ Len(combined.data) = Len(kept.data)
        /\ \E o \in Orderings(Len(kept.data)) :
               /\ \A i \in Rows(combined) :
                      /\ combined.data[i][1] = kept.data[o[i]][1]
                      /\ SubSeq(combined.data[i], 3, Len(combined.data[i])) = Tail(kept.data[o[i]])
               /\ pipeline = "accessory" =>
                      \A i, j \in Rows(combined) :
                          (i < j /\ combined.data[i][1] = combined.data[j][1]
                                 /\ CellAt(combined, i, COL.no) = CellAt(combined, j, COL.no))
                              => o[i] < o[j]
        /\ \A i, j \in Rows(combined) :
               i < j => /\ ~StrLess(combined.data[j][1], combined.data[i][1])
                        /\ (pipeline = "accessory" /\ combined.data[i][1] = combined.data[j][1])
                               => ~StrLess(CellAt(combined, j, COL.no), CellAt(combined, i, COL.no))

ModulePart(name) ==
    LET underscore == CHOOSE i \in 1..Len(name) :
                          name[i] = "_" /\ \A k \in 1..(i - 1) : name[k] # "_"
        hyphen == CHOOSE i \in 1..Len(name) :
                      name[i] = "-" /\ \A k \in (i + 1)..Len(name) : name[k] # "-"
    IN  SubSeq(name, underscore + 1, hyphen - 1)

\* C5: in the self-purchase scripts the module name on the records of a
\* discovered file is the <module> part of the file name.
C5_ModuleNameIsModulePart ==
    pipeline \in SelfPurchase =>
        \A k \in 1..Len(all_components) :
            \A r \in Rows(all_components[k]) :
                \E i \in 1..idx : all_components[k].data[r][1] = ModulePart(files[i].name)

\* Some core column of script p is not among the headers of the table.
MissingCore(p, df) ==
    \E c \in 1..Len(core_columns(p)) :
        \A h \in 1..Len(df.columns) : Strip(df.columns[h]) # core_columns(p)[c]

\* C9: a turn of the loop of a self-purchase script on a file that lacks a
\* core column adds no record and moves on to the next file.
C9_MissingColumnSkipsFile ==
    [][(/\ pc = "scan"
        /\ pipeline \in SelfPurchase
        /\ idx < Len(files)
        /\ files[idx + 1].readable
        /\ MissingCore(pipeline, files[idx + 1].df))
          => (all_components' = all_components /\ idx' = idx + 1 /\ pc' = "scan")]_vars

\* A file with a self-purchase row but no Value column was passed over, and
\* the file after it gave its records.
C9_Witness ==
    /\ pipeline \in SelfPurchase
    /\ idx = 2
    /\ files[1].readable
    /\ MissingCore(pipeline, files[1].df)
    /\ files[2].readable
    /\ ~MissingCore(pipeline, files[2].df)
    /\ Len(all_components) = 1

IsReadable(file) == file.readable

\* What the loop collects from a list of files.
RECURSIVE Collected(_, _)
Collected(p, fs) ==
    IF fs = <<>>
    THEN <<>>
    ELSE loop_body(p, Collected(p, SubSeq(fs, 1, Len(fs) - 1)), fs[Len(fs)])

\* C10: in the three scripts the tables the loop has collected are those of
\* a run over the same files without the files that cannot be read, and the
\* loop ends only when it has been through every file.
C10_FailureIsContained ==
    /\ pc = "scan" =>
           all_components = Collected(pipeline, SelectSeq(SubSeq(files, 1, idx), IsReadable))
    /\ pc # "scan" => idx = Len(files)

\* A file gave records, the file after it could not be read, and the records
\* are still there at the end of the loop.
C10_Witness ==
    /\ pc = "scan"
    /\ Len(files) = 2
    /\ idx = 2
    /\ files[1].readable
    /\ ~files[2].readable
    /\ all_components # <<>>

\* The row of table kept where module m is first seen.
FirstSeen(kept, m) ==
    CHOOSE r \in Rows(kept) :
        kept.data[r][1] = m /\ \A q \in 1..(r - 1) : kept.data[q][1] # m

\* One aggregate per distinct module name of the kept records.
OneAggregatePerModule(kept) ==
    /\ {module_total.data[i][1] : i \in Rows(module_total)} = {kept.data[r][1] : r \in Rows(kept)}
    /\ \A i, j \in Rows(module_total) :
           module_total.data[i][1] = module_total.data[j][1] => i = j

\* C11 as stated: one aggregate per distinct module name, the aggregates and
\* the module groups of the summary table in the order the modules were first
\* seen by file discovery.
C11_AggregatesInFirstSeenOrder ==
    AggregatedSelf =>
        LET kept == Discovery
        IN  /\ OneAggregatePerModule(kept)
            /\ \A i, j \in Rows(module_total) :
                   i < j => FirstSeen(kept, module_total.data[i][1])
                                < FirstSeen(kept, module_total.data[j][1])
            /\ \A i, j \in Rows(combined) :
                   i < j => FirstSeen(kept, combined.data[i][1])
                                <= FirstSeen(kept, combined.data[j][1])

\* C11: one aggregate per distinct module name, the aggregates and the module
\* groups of the summary table in ascending order of the module name.
C11_AggregatesInModuleNameOrder ==
    AggregatedSelf =>
        LET kept == Discovery
        IN  /\ OneAggregatePerModule(kept)
            /\ \A i, j \in Rows(module_total) :
                   i < j => StrLess(module_total.data[i][1], module_total.data[j][1])
            /\ \A i, j \in Rows(combined) :
                   i < j => ~StrLess(combined.data[j][1], combined.data[i][1])

\* Two modules were aggregated, the one seen second first.
C11_Witness ==
    /\ AggregatedSelf
    /\ Len(module_total.data) = 2
    /\ FirstSeen(Discovery, module_total.data[1][1]) > FirstSeen(Discovery, module_total.data[2][1])

\* C12: the module totals count every kept record, the records sharing a
\* deduplication key included, and are the same after the deduplication: in
\* the totals table and in the total column of the summary table each total is
\* the sum of the Value of all kept records of its module.
C12_TotalsCountDuplicates ==
    (pipeline \in SelfPurchase /\ DedupDone) =>
        LET kept == Discovery
        IN  /\ Len(combined.data) = Len(kept.data)
            /\ \A i \in Rows(module_total) :
                   module_total.data[i][2] = SumSeq(ValuesOfModule(kept, module_total.data[i][1]))
            /\ \A r \in Rows(combined) :
                   combined.data[r][2] = SumSeq(ValuesOfModule(kept, combined.data[r][1]))

\* Two modules hold a record of the same type each: one type is left after the
\* deduplication, and both modules have the Value of their record as total.
C12_Witness ==
    /\ pipeline \in SelfPurchase
    /\ DedupDone
    /\ Len(df_unique.data) = 1
    /\ Len(module_total.data) = 2
    /\ \A i \in Rows(module_total) : module_total.data[i][2] > 0

(***************************************************************************)
(* match_column_name on its own: any column labels, any variant names.     *)
(***************************************************************************)
\* Column labels: differing in case, one contained in another, unrelated.
HeaderPool == {<<"a", "b">>, <<"A", "b">>, <<"B">>, <<"b", "a">>, <<"c">>}

\* Variant names: lower and upper case, longer than a label, in no label,
\* the empty string.
TargetPool == {<<"a">>, <<"B">>, <<"A", "B">>, <<"d">>, <<>>}

InitMatch ==
    /\ pc = "call"
    /\ headers \in StringsUpTo(HeaderPool, MaxHeaders)
    /\ targets \in StringsUpTo(TargetPool, MaxTargets)
    /\ matched = Idle
    /\ ZipIdle
    /\ ClassifyIdle
    /\ FilterIdle
    /\ RunIdle

Match ==
    /\ pc = "call"
    /\ matched' = match_column_name(headers, targets)
    /\ pc' = "matched"
    /\ UNCHANGED <<headers, targets, listing, reached, zips, classifyVars, filterVars, runVars>>

NextMatch == Match

SpecMatch == InitMatch /\ [][NextMatch]_vars

\* Variant t is contained in label c, letter case aside.
Hit(t, c) == Contains(Upper(headers[c]), Upper(targets[t]))

\* C13: the result is the label of the first column holding the earliest
\* variant that any label holds, letter case aside; it is no label when no
\* label holds any variant.
C13_FirstVariantThenFirstColumn ==
    pc = "matched" =>
        IF \A t \in 1..Len(targets), c \in 1..Len(headers) : ~Hit(t, c)
        THEN isna(matched)
        ELSE \E t \in 1..Len(targets), c \in 1..Len(headers) :
                 /\ Hit(t, c)
                 /\ \A u \in 1..(t - 1), d \in 1..Len(headers) : ~Hit(u, d)
                 /\ \A d \in 1..(c - 1) : ~Hit(t, d)
                 /\ matched = headers[c]

\* The first variant is held by the second label only, in another letter
\* case, the second variant by the first label: the second label is returned.
C13_Witness ==
    /\ pc = "matched"
    /\ Len(headers) = 2
    /\ Len(targets) = 2
    /\ ~Hit(1, 1) /\ Hit(1, 2) /\ Hit(2, 1)
    /\ ~Contains(headers[2], targets[1])
    /\ headers[1] # headers[2]
    /\ matched = headers[2]

\* The label that both the manufacturer and the manufacturer_part field
\* resolve to: the first label holding 'manufacturer', when it also holds
\* 'manufacturer part'; NaN when there is no such label.
SharedLabel(df_columns) ==
    LET holds == {c \in 1..Len(df_columns) :
                     Contains(Lower(df_columns[c]), Lower(COL.manufacturer))}
        first == CHOOSE c \in holds : \A d \in holds : c <= d
    IN  IF holds # {} /\ Contains(Lower(df_columns[first]), Lower(COL.manufacturer_part))
        THEN df_columns[first]
        ELSE NaN

\* C14: a file whose manufacturer and manufacturer_part fields resolve to the
\* same label is processed without error: it adds one record per kept row, and
\* both fields of the record carry the cleaned cell under that label.
C14_CollisionTolerated ==
    (/\ pipeline = "non_self" /\ pc = "scan" /\ idx >= 1
     /\ files[idx].readable
     /\ ~isna(SharedLabel(files[idx].df.columns))) =>
            LET kept == judge_non_self_purchase(
                            WithFilePath(files[idx].df, PathOf(DIR_SUB, files[idx].name)))
                label == SharedLabel(files[idx].df.columns)
            IN  kept.data # <<>> =>
                    /\ all_components # <<>>
                    /\ LET result_df == all_components[Len(all_components)]
                       IN  /\ Len(result_df.data) = Len(kept.data)
                           /\ \A r \in Rows(kept) :
                                  /\ CellAt(result_df, r, COL.manufacturer_part)
                                         = clean_invalid_content(CellAt(kept, r, label))
                                  /\ CellAt(result_df, r, COL.manufacturer)
                                         = clean_invalid_content(CellAt(kept, r, label))

\* A file with one kept row was processed: its record has the cell of the
\* 'Manufacturer Part' column in both fields.
C14_Witness ==
    /\ pipeline = "non_self"
    /\ pc = "scan"
    /\ idx = 1
    /\ files[1].readable
    /\ SharedLabel(files[1].df.columns) = COL.manufacturer_part
    /\ Len(all_components) = 1
    /\ CellAt(all_components[1], 1, COL.manufacturer_part) = CELL.m1
    /\ CellAt(all_components[1], 1, COL.manufacturer) = CELL.m1

\* C15: in the non-self-purchase script the module name on the records of a
\* discovered file is the <module> part of the file name.
C15_NonSelfModuleNameIsModulePart ==
    pipeline = "non_self" =>
        \A k \in 1..Len(all_components) :
            \A r \in Rows(all_components[k]) :
                \E i \in 1..idx :
                    CellAt(all_components[k], r, COL.module) = ModulePart(files[i].name)

(***************************************************************************)
(* The self-purchase scripts over one workbook whose rows are all kept and  *)
(* whose numeric cells are a number, text that is no number, or missing,    *)
(* the Quantity and the price cell of a row being of different kinds.       *)
(***************************************************************************)
NumericCells == {<<"2">>, <<"x">>, NaN}

\* A kept row of script p with the given Quantity, price and Value cells.
NumericRow(p, cells) ==
    IF p = "accessory"
    THEN <<<<"1">>, cells[1], CELL.m1, cells[2], cells[3], CELL.url, NaN, NaN>>
    ELSE <<CELL.m1, cells[1], CELL.r1, CELL.s1, cells[2], cells[3], CELL.url, NaN, NaN>>

InitNumeric ==
    /\ pc = "scan"
    /\ \E p \in SelfPurchase, n \in 1..MaxRows :
         \E cells \in [1..n -> {c \in NumericCells \X NumericCells \X NumericCells :
                                    c[1] # c[2]}] :
           /\ pipeline = p
           /\ files = <<File(p, IF p = "accessory" THEN NAME.acc_z ELSE NAME.bom_z, "ok",
                             [r \in 1..n |-> NumericRow(p, cells[r])])>>
    /\ idx = 0
    /\ all_components = <<>>
    /\ combined = Idle
    /\ module_total = Idle
    /\ df_unique = Idle
    /\ total = Idle
    /\ regular_df = Idle
    /\ special_df = Idle
    /\ ClassifyIdle
    /\ FilterIdle
    /\ UnitIdle

NextNumeric == ProcessFile \/ Aggregate \/ Deduplicate \/ Statistics

SpecNumeric == InitNumeric /\ [][NextNumeric]_vars

\* The cell is missing or is no number.
Unparsed(cell) == isna(cell) \/ cell = <<>> \/ \E i \in 1..Len(cell) : cell[i] \notin Digits

\* C16: the file was processed without error and every row is emitted; a
\* Quantity, price or Value cell that is missing or no number is 0 in the
\* record, and the module total is the sum of the Value cells that are numbers.
C16_UnparsedCellsCountZero ==
    (pipeline \in SelfPurchase /\ idx = 1) =>
        /\ Len(all_components) = 1
        /\ Len(all_components[1].data) = Len(files[1].df.data)
        /\ \A r \in Rows(files[1].df) :
               \A col \in {COL.quantity, COL.lcsc_price, COL.price, COL.value} :
                   (HasColumn(files[1].df, col) /\ Unparsed(CellAt(files[1].df, r, col)))
                       => CellAt(all_components[1], r, col) = 0
        /\ pc # "scan" =>
               /\ Len(module_total.data) = 1
               /\ module_total.data[1][2]
                      = SumSeq([r \in Rows(files[1].df) |->
                                   IF Unparsed(CellAt(files[1].df, r, COL.value))
                                   THEN 0
                                   ELSE CellAt(all_components[1], r, COL.value)])

\* Two rows, one with a missing Value, the other with Value 2 and a Quantity
\* that is no number: both are emitted and the module total is 2.
C16_Witness ==
    /\ pipeline \in SelfPurchase
    /\ pc = "dedup"
    /\ Len(files[1].df.data) = 2
    /\ isna(CellAt(files[1].df, 1, COL.value))
    /\ CellAt(files[1].df, 2, COL.value) = <<"2">>
    /\ CellAt(files[1].df, 2, COL.quantity) = <<"x">>
    /\ Len(all_components[1].data) = 2
    /\ CellAt(all_components[1], 1, COL.value) = 0
    /\ CellAt(all_components[1], 2, COL.quantity) = 0
    /\ module_total.data[1][2] = 2

\* The deduplication step of the running script, applied to table df.
DedupStep(df) ==
    IF pipeline = "non_self"
    THEN deduplicate_components(df)
    ELSE LET again == reset_index(drop_duplicates(df, unique_type_cols(pipeline)))
         IN  IF pipeline = "accessory"
             THEN SetColumn(again, COL.no, [r \in Rows(again) |-> r])
             ELSE again

\* C17: the deduplication step applied to the deduplicated table returns it
\* unchanged: the same records, in the same order, under the same labels.
C17_DedupIdempotent == DedupDone => DedupStep(df_unique) = df_unique

\* The deduplication removed a record and left one.
C17_Witness ==
    /\ DedupDone
    /\ df_unique.data # <<>>
    /\ Len(df_unique.data) < Len(Discovery.data)
    /\ DedupStep(df_unique) = df_unique

(***************************************************************************)
(* folder_zipper.py: batch_compress_folders over the entries of the        *)
(* current directory.  Entry i has the archive path zips[i]: "none" when   *)
(* no such path exists, "old" for what existed before the run, "open" for  *)
(* an archive the run has created and is writing, "new" for one it has     *)
(* written and closed.                                                     *)
(***************************************************************************)
\* An entry: a file, a directory whose name starts with '.', or a folder that
\* holds files, holds nothing, holds a file that cannot be read, or cannot
\* be listed.
Entries ==
    {[kind |-> "file", content |-> "none"], [kind |-> "hidden", content |-> "none"]}
        \cup {[kind |-> "folder", content |-> c] :
                 c \in {"files", "empty", "unreadable_file", "unlistable"}}

InitZip ==
    /\ pc = "loop"
    /\ \E n \in 0..MaxItems :
         /\ listing \in [1..n -> Entries]
         /\ zips \in [1..n -> {"none", "old"}]
    /\ reached = 0
    /\ MatchIdle
    /\ ClassifyIdle
    /\ FilterIdle
    /\ RunIdle

\* Line 27: the entry is no directory, or its name starts with '.'.
SkipEntry ==
    /\ pc = "loop"
    /\ reached < Len(listing)
    /\ listing[reached + 1].kind # "folder"
    /\ reached' = reached + 1
    /\ UNCHANGED <<pc, listing, zips, headers, targets, matched,
                   classifyVars, filterVars, runVars>>

\* Lines 33-35: the archive path exists, continue.
SkipExisting ==
    /\ pc = "loop"
    /\ reached < Len(listing)
    /\ listing[reached + 1].kind = "folder"
    /\ zips[reached + 1] # "none"
    /\ reached' = reached + 1
    /\ UNCHANGED <<pc, listing, zips, headers, targets, matched,
                   classifyVars, filterVars, runVars>>

\* Line 38: os.listdir(item_path) raises for a folder that cannot be listed;
\* the call stands before the try statement, the exception ends the run.
ListRaises ==
    /\ pc = "loop"
    /\ reached < Len(listing)
    /\ listing[reached + 1].kind = "folder"
    /\ zips[reached + 1] = "none"
    /\ listing[reached + 1].content = "unlistable"
    /\ pc' = "raised"
    /\ UNCHANGED <<listing, reached, zips, headers, targets, matched,
                   classifyVars, filterVars, runVars>>

\* Line 43: zipfile.ZipFile(zip_filepath, 'w', ...) creates the archive.
OpenArchive ==
    /\ pc = "loop"
    /\ reached < Len(listing)
    /\ listing[reached + 1].kind = "folder"
    /\ zips[reached + 1] = "none"
    /\ listing[reached + 1].content # "unlistable"
    /\ zips' = [zips EXCEPT ![reached + 1] = "open"]
    /\ pc' = "write"
    /\ UNCHANGED <<listing, reached, headers, targets, matched,
                   classifyVars, filterVars, runVars>>

\* Lines 45-55: every file was written, the archive is closed.
CloseArchive ==
    /\ pc = "write"
    /\ listing[reached + 1].content \in {"files", "empty"}
    /\ zips' = [zips EXCEPT ![reached + 1] = "new"]
    /\ reached' = reached + 1
    /\ pc' = "loop"
    /\ UNCHANGED <<listing, headers, targets, matched, classifyVars, filterVars, runVars>>

\* Lines 53, 57-61: zipf.write raises, the handler removes the archive.
RemoveArchive ==
    /\ pc = "write"
    /\ listing[reached + 1].content = "unreadable_file"
    /\ zips' = [zips EXCEPT ![reached + 1] = "none"]
    /\ reached' = reached + 1
    /\ pc' = "loop"
    /\ UNCHANGED <<listing, headers, targets, matched, classifyVars, filterVars, runVars>>

\* The loop is over, batch_compress_folders returns.
ReturnZip ==
    /\ pc = "loop"
    /\ reached = Len(listing)
    /\ pc' = "done"
    /\ UNCHANGED <<listing, reached, zips, headers, targets, matched,
                   classifyVars, filterVars, runVars>>

NextZip ==
    \/ SkipEntry
    \/ SkipExisting
    \/ ListRaises
    \/ OpenArchive
    \/ CloseArchive
    \/ RemoveArchive
    \/ ReturnZip

SpecZip == InitZip /\ [][NextZip]_vars

\* C18: an archive that existed before the run stays as it is, the run
\* removes only an archive it has created and not finished, and the run ends
\* only after the last entry, whatever happened to the folders before it.
C18_ArchivesKeptAndFailuresContained ==
    /\ [][\A i \in 1..Len(listing) :
              /\ zips[i] = "old" => zips'[i] = "old"
              /\ (zips[i] # "none" /\ zips'[i] = "none") => zips[i] = "open"]_vars
    /\ [](pc \in {"done", "raised"} => reached = Len(listing))

(***************************************************************************)
(* main of process_non_self_purchase_components.py from the concatenated   *)
(* records on: deduplicate_components, then split_regular_special, for any *)
(* records process_bom_file can have emitted.                              *)
(***************************************************************************)
\* A record as process_bom_file emits it for a row with the given cells: the
\* cells cleaned, the type that of the raw Designator, the manufacturer
\* field resolved to the 'Manufacturer Part' column.
EmittedRecord(module, raw_designator, supplier_part, manufacturer_part) ==
    <<module, clean_invalid_content(raw_designator), supplier_part,
      clean_invalid_content(classify_component(raw_designator)),
      manufacturer_part, manufacturer_part>>

EmittedRecords ==
    {EmittedRecord(m, d, s, n) :
        m \in {ModuleOfPath(PathOf(DIR_SUB, NAME.bom_z)), ModuleOfPath(PathOf(DIR_SUB, NAME.bom_a))},
        d \in {CELL.r1, CELL.x1, CELL.blank, NaN},
        s \in {CELL.s1, CELL.s2, NaN},
        n \in {CELL.m1, NaN}}

InitSplit ==
    /\ pc = "deduplicate"
    /\ pipeline = "non_self"
    /\ \E n \in 1..MaxRecords :
         \E records \in [1..n -> EmittedRecords] :
           combined = DataFrame(<<COL.module, COL.designator, COL.supplier_part, COL.type,
                                  COL.manufacturer_part, COL.manufacturer>>,
                                [r \in 1..n |-> r - 1], records)
    /\ files = Idle
    /\ idx = Idle
    /\ all_components = Idle
    /\ module_total = Idle
    /\ df_unique = Idle
    /\ total = Idle
    /\ regular_df = Idle
    /\ special_df = Idle
    /\ ClassifyIdle
    /\ FilterIdle
    /\ UnitIdle

NextSplit == DeduplicateComponents \/ SplitRegularSpecial

SpecSplit == InitSplit /\ [][NextSplit]_vars

\* The record in row r of the deduplicated table is special.
IsSpecial(r) ==
    \/ isna(CellAt(df_unique, r, COL.designator))
    \/ isna(CellAt(df_unique, r, COL.supplier_part))
    \/ CellAt(df_unique, r, COL.type) = CAT.other

\* The cells of the given columns in row r of the deduplicated table as an
\* output list shows them.
Shown(r, cols) ==
    [c \in 1..Len(cols) |->
        IF isna(CellAt(df_unique, r, cols[c])) THEN <<"wu2">> ELSE CellAt(df_unique, r, cols[c])]

\* C19: the special list holds the special records of the deduplicated table,
\* the regular list the others, each in the order of the table; the sizes of
\* the two lists add up to the size of the table.
C19_SplitIsPartition ==
    (pipeline = "non_self" /\ pc = "done" /\ df_unique # Idle) =>
        LET special == KeptRows(df_unique, [r \in Rows(df_unique) |-> IsSpecial(r)], 1)
            regular == KeptRows(df_unique, [r \in Rows(df_unique) |-> ~IsSpecial(r)], 1)
        IN  /\ Len(regular_df.data) + Len(special_df.data) = Len(df_unique.data)
            /\ Len(special_df.data) = Len(special)
            /\ Len(regular_df.data) = Len(regular)
            /\ \A k \in 1..Len(special) :
                   special_df.data[k]
                       = Shown(special[k], <<COL.module, COL.type, COL.manufacturer_part,
                                             COL.supplier_part>>)
            /\ \A k \in 1..Len(regular) :
                   regular_df.data[k]
                       = Shown(regular[k], <<COL.type, COL.manufacturer_part, COL.supplier_part>>)

\* One record is regular, the other is special only because of its type.
C19_Witness ==
    /\ pipeline = "non_self"
    /\ pc = "done"
    /\ df_unique # Idle
    /\ Len(regular_df.data) = 1
    /\ Len(special_df.data) = 1
    /\ \E r \in Rows(df_unique) :
           /\ ~isna(CellAt(df_unique, r, COL.designator))
           /\ ~isna(CellAt(df_unique, r, COL.supplier_part))
           /\ CellAt(df_unique, r, COL.type) = CAT.other

\* The rows of table df without a Supplier Part.
NoSupplierPart(df) == {r \in Rows(df) : isna(CellAt(df, r, COL.supplier_part))}

\* C20: the deduplicated table holds at most one record without a Supplier
\* Part, the first such record of the concatenated records, and the special
\* list at most one record shown without one.
C20_OneRecordWithoutSupplierPart ==
    (pipeline = "non_self" /\ pc \in {"split", "done"} /\ df_unique # Idle) =>
        /\ Cardinality(NoSupplierPart(df_unique)) <= 1
        /\ NoSupplierPart(combined) # {} =>
               LET first == CHOOSE q \in NoSupplierPart(combined) :
                                \A k \in NoSupplierPart(combined) : q <= k
               IN  \E r \in NoSupplierPart(df_unique) :
                       /\ df_unique.data[r] = combined.data[first]
                       /\ df_unique.index[r] = combined.index[first]
        /\ pc = "done" =>
               Cardinality({k \in Rows(special_df) : special_df.data[k][4] = <<"wu2">>}) <= 1

\* Two records without a Supplier Part that differ in module, Designator and
\* Manufacturer Part: the first is left, and is the one special record.
C20_Witness ==
    /\ pipeline = "non_self"
    /\ pc = "done"
    /\ df_unique # Idle
    /\ Len(combined.data) = 2
    /\ NoSupplierPart(combined) = {1, 2}
    /\ combined.data[1][1] # combined.data[2][1]
    /\ combined.data[1][2] # combined.data[2][2]
    /\ combined.data[1][5] # combined.data[2][5]
    /\ df_unique.data = <<combined.data[1]>>
    /\ Len(special_df.data) = 1

\* C21: a designator classified connector is present, starts, trimmed and in
\* upper case, with none of R, C, LED, Q, U, SW and holds J, CN or USB; one
\* that starts with CN is classified capacitor, one that starts with USB
\* integrated circuit.
C21_ConnectorOnlyWithoutPrefix ==
    pc \in {"classified", "emitted"} =>
        /\ category = CAT.connector =>
               /\ ~isna(designator)
               /\ \A p \in {<<"R">>, <<"C">>, <<"L", "E", "D">>, <<"Q">>, <<"U">>, <<"S", "W">>} :
                      ~HasPrefix(p)
               /\ \E p \in {<<"J">>, <<"C", "N">>, <<"U", "S", "B">>} : HasMark(p)
        /\ (~isna(designator) /\ HasPrefix(<<"C", "N">>)) => category = CAT.capacitor
        /\ (~isna(designator) /\ HasPrefix(<<"U", "S", "B">>)) => category = CAT.ic

\* A designator that starts with USB was classified integrated circuit.
C21_Witness ==
    /\ pc = "emitted"
    /\ ~isna(designator)
    /\ HasPrefix(<<"U", "S", "B">>)
    /\ category = CAT.ic
    /\ record_type = CAT.ic

====
